---- MODULE Spec2Model ----
(***************************************************************************)
(* Pull-Box: the credential lifecycle and the public upload pipeline.      *)
(*                                                                         *)
(*  - the drive-upload edge function (public-upload gateway),              *)
(*  - the token-refresh edge function (owner token-refresh endpoint),      *)
(*  - persistGoogleToken (credential persist at login),                    *)
(*  - GoogleDriveService.authorizedFetch (the browser's Drive client),     *)
(*  - handleCreateBox (the dashboard creating a Collection).               *)
(*                                                                         *)
(* Every await of a handler is a point where other handlers may run, so    *)
(* each handler is a sequence of actions, one per store or provider round  *)
(* trip.  An instant is a pair <<day, ms>>: days from an arbitrary origin  *)
(* and milliseconds into that day.                                         *)
(***************************************************************************)
EXTENDS Integers, Sequences, FiniteSets, TLC

(***************************************************************************)
(* Bounds of the model.                                                    *)
(***************************************************************************)
MaxFiles == 2       \* files in one multipart submission
MaxTime == 2        \* clock ticks (ms) the clock may advance
MaxIssued == 2      \* tokens the provider issues beyond the initial ones
MaxCalls == 2       \* calls made through one Drive client

Reqs == {"r1", "r2"}            \* concurrent gateway requests
EpCalls == {"e1"}               \* calls of the owner token-refresh endpoint
Owners == {"o1", "o2", "o3"}

(***************************************************************************)
(* Values.                                                                 *)
(***************************************************************************)
NullTime == <<-1, 0>>           \* a null timestamp column / absent expiry
NullCode == << >>               \* extractLinkCode's null (it never returns "")
NoToken == [kind |-> "none", owner |-> "-", n |-> 0]    \* null / "" / undefined
AT(o, k) == [kind |-> "access", owner |-> o, n |-> k]
RT(o, k) == [kind |-> "refresh", owner |-> o, n |-> k]

Min(S) == CHOOSE x \in S : \A y \in S : x <= y

(***************************************************************************)
(* Instants: Date.now(), Date.parse(iso) and new Date(ms).toISOString().   *)
(***************************************************************************)
MS_PER_DAY == 24 * 60 * 60 * 1000

Instant(day, ms) == <<day, ms>>
Epoch == Instant(0, 0)

\* a < b and a <= b on instants
Before(a, b) == a[1] < b[1] \/ (a[1] = b[1] /\ a[2] < b[2])
NotAfter(a, b) == a[1] < b[1] \/ (a[1] = b[1] /\ a[2] <= b[2])

\* t + ms and t + days * 24 * 60 * 60 * 1000
AddMs(t, ms) == Instant(t[1] + ((t[2] + ms) \div MS_PER_DAY), (t[2] + ms) % MS_PER_DAY)
AddDays(t, days) == Instant(t[1] + days, t[2])

(***************************************************************************)
(* extractLinkCode.  A string is a sequence of one-character strings.      *)
(***************************************************************************)
AlnumChars == {"A", "B", "C", "D", "E", "F", "Z", "1", "2", "3", "4", "5", "6", "9",
               "j", "a", "r"}
SpaceChars == {" "}
StopChars == {"/", "?", "#"}    \* the class excluded by [^/?#]

HashJar == <<"#", "/", "j", "a", "r", "/">>
PathJar == <<"/", "j", "a", "r", "/">>

\* String.prototype.trim
trim(s) ==
    LET keep == {i \in 1..Len(s) : s[i] \notin SpaceChars}
    IN IF keep = {} THEN << >>
       ELSE SubSeq(s, Min(keep), CHOOSE i \in keep : \A j \in keep : j <= i)

\* /^[A-Za-z0-9]{4,12}$/
directMatch(s) ==
    /\ Len(s) >= 4
    /\ Len(s) <= 12
    /\ \A i \in 1..Len(s) : s[i] \in AlnumChars

\* pat followed by ([^/?#]+): the positions where the pattern matches
MatchStarts(s, pat) ==
    {i \in 1..Len(s) :
        /\ i + Len(pat) <= Len(s)
        /\ SubSeq(s, i, i + Len(pat) - 1) = pat
        /\ s[i + Len(pat)] \notin StopChars}

\* the capture group of the leftmost match: the longest run without / ? #
Capture(s, pat) ==
    LET i == Min(MatchStarts(s, pat))
        from == i + Len(pat)
        stops == {j \in from..Len(s) : s[j] \in StopChars}
        to == IF stops = {} THEN Len(s) ELSE Min(stops) - 1
    IN SubSeq(s, from, to)

extractLinkCode(value) ==
    LET trimmed == trim(value)
    IN IF trimmed = << >> THEN NullCode
       ELSE IF directMatch(trimmed) THEN trimmed
       ELSE IF MatchStarts(trimmed, HashJar) # {} THEN Capture(trimmed, HashJar)
       ELSE IF MatchStarts(trimmed, PathJar) # {} THEN Capture(trimmed, PathJar)
       ELSE NullCode

(***************************************************************************)
(* isExpired (both edge functions): the 30 second freshness margin.        *)
(* A null column is "not expired".                                         *)
(***************************************************************************)
FRESHNESS_MARGIN_MS == 30000

isExpired_NoMargin(expiresAt, t) ==
    IF expiresAt = NullTime THEN FALSE
    ELSE NotAfter(expiresAt, t)

isExpired(expiresAt, t) ==
    IF expiresAt = NullTime THEN FALSE
    ELSE NotAfter(expiresAt, AddMs(t, FRESHNESS_MARGIN_MS))

(***************************************************************************)
(* Submitted content types: <<type, subtype>> stands for "type/subtype".   *)
(***************************************************************************)
ImagePng == <<"image", "png">>
TextPlain == <<"text", "plain">>
ContentTypes == {ImagePng, TextPlain}
NoFile == <<"", "">>            \* form.get("file") is not a File

\* f.type.startsWith("image/")
startsWithImage_OrText(type) == type[1] \in {"image", "text"}

startsWithImage(type) == type[1] = "image"

(***************************************************************************)
(* The store at deployment: three Collections of three owners.             *)
(***************************************************************************)
CodeAB12 == <<"A", "B", "1", "2">>
CodeCD34 == <<"C", "D", "3", "4">>
CodeEF56 == <<"E", "F", "5", "6">>

Box1 == [id |-> "b1", owner_id |-> "o1", drive_folder_id |-> "f1",
         link_code |-> CodeAB12, expires_at |-> Instant(0, 1), photo_count |-> 0]
Box2 == [id |-> "b2", owner_id |-> "o2", drive_folder_id |-> "f2",
         link_code |-> CodeCD34, expires_at |-> Instant(0, MaxTime + 1), photo_count |-> 0]
Box3 == [id |-> "b3", owner_id |-> "o3", drive_folder_id |-> "f3",
         link_code |-> CodeEF56, expires_at |-> Instant(0, MaxTime + 1), photo_count |-> 0]
NoBox == [id |-> "-", owner_id |-> "-", drive_folder_id |-> "-",
          link_code |-> NullCode, expires_at |-> NullTime, photo_count |-> 0]

NoRow == [user_id |-> "-", provider |-> "-", access_token |-> NoToken,
          refresh_token |-> NoToken, expires_at |-> NullTime]

\* values of the three form fields code / linkCode / link
RawCodes == {<< >>,
             CodeAB12,
             <<" ", "C", "D", "3", "4", " ">>,
             <<"Z", "Z", "9", "9">>,
             <<"/", "j", "a", "r", "/", "A", "-">>,
             <<"A", "-", "1", "2">>}
RawLinkCodes == {<< >>, CodeEF56}
RawLinks == {<< >>, <<"#", "/", "j", "a", "r", "/", "A", "B", "1", "2", "?", "a">>}

\* sequences of content types of length 0..n
TypeSeqs(n) == UNION {[1..k -> ContentTypes] : k \in 0..n}

UPLOAD_TOKEN == "secret"        \* the deployment's shared upload-gate secret

VARIABLES
    now,                \* Date.now()
    pull_boxes,         \* table pull_boxes: a set of rows
    user_oauth_tokens,  \* table user_oauth_tokens: a set of rows
    issued,             \* number of tokens the provider has issued so far
    session,            \* per owner, the browser's auth session
    driveLog,           \* provider uploads accepted: [req, file, folder, token]
    gw,                 \* per gateway request, the handler's locals
    ep,                 \* per token-refresh endpoint call, the handler's locals
    cl,                 \* the browser's GoogleDriveService and its call in flight
    cr,                 \* per call of handleCreateBox, the handler's locals
    boxes,              \* per signed-in user, the dashboard's list (state `boxes`)
    dl,                 \* per call of handleDeleteBox, the handler's locals
    feed,               \* per subscribed dashboard, the change events in flight
    up                  \* the upload page: selected files, attempts, position

serverVars == <<now, pull_boxes, user_oauth_tokens, issued, session, driveLog, gw, ep>>

vars == <<now, pull_boxes, user_oauth_tokens, issued, session, driveLog, gw, ep, cl,
          cr, boxes, dl, feed, up>>

NoResponse == [status |-> 0, body |-> << >>]
Text(s) == [text |-> s]
NoRefreshed == [accessToken |-> NoToken, expiresAt |-> NullTime, refreshToken |-> NoToken]

\* Locals of the drive-upload handler.  attempted, lastUpload, refreshCalls,
\* tokenWrites, countWrites and credRows record what the request has done so
\* far.
GwIdle == [pc |-> "idle", linkCode |-> NullCode, files |-> << >>, box |-> NoBox,
           tokenRow |-> NoRow, accessToken |-> NoToken, refreshed |-> NoRefreshed,
           results |-> << >>, attempted |-> 0, lastUpload |-> "none",
           response |-> NoResponse,
           refreshCalls |-> 0, tokenWrites |-> 0, countWrites |-> 0, credRows |-> {}]

(***************************************************************************)
(* The change feed of table pull_boxes.  A dashboard subscribes to the     *)
(* changes of its user's rows (filter owner_id=eq.<user id>); the store    *)
(* queues one event per changed row, in the order of the changes.          *)
(***************************************************************************)
\* payload.eventType, payload.old.id and payload.new
ChangeEvent(eventType, id, row) == [eventType |-> eventType, id |-> id, new |-> row]

Publish(owner, event) ==
    IF owner \in DOMAIN feed THEN [feed EXCEPT ![owner] = Append(@, event)] ELSE feed

\* the events of a step that updates rows
UpdateEvents ==
    [u \in DOMAIN feed |->
        LET changed == {b \in pull_boxes' : b \notin pull_boxes /\ b.owner_id = u}
            row == CHOOSE b \in changed : TRUE
        IN IF changed = {} THEN feed[u]
           ELSE Append(feed[u], ChangeEvent("UPDATE", row.id, row))]

(***************************************************************************)
(* Store queries.  .single() fails unless exactly one row matches.         *)
(***************************************************************************)
BoxesByCode(code) == {b \in pull_boxes : b.link_code = code}

TokenRowsOf(owner) ==
    {t \in user_oauth_tokens : t.user_id = owner /\ t.provider = "google"}

single(rows, none) == IF Cardinality(rows) = 1 THEN CHOOSE x \in rows : TRUE ELSE none

\* .update(values).eq("user_id", owner).eq("provider", "google")
UpdateTokenRow(owner, accessToken, refreshToken, expiresAt) ==
    {IF t.user_id = owner /\ t.provider = "google"
        THEN [t EXCEPT !.access_token = accessToken,
                       !.refresh_token = refreshToken,
                       !.expires_at = expiresAt]
        ELSE t : t \in user_oauth_tokens}

\* .update({ photo_count }).eq("id", id)
UpdatePhotoCount_NoFilter(id, nextCount) ==
    {[b EXCEPT !.photo_count = nextCount] : b \in pull_boxes}

UpdatePhotoCount(id, nextCount) ==
    {IF b.id = id THEN [b EXCEPT !.photo_count = nextCount] ELSE b : b \in pull_boxes}

(***************************************************************************)
(* The provider's token endpoint, as refreshAccessToken sees it.           *)
(* expires_in is in seconds; 0 stands for an absent expires_in.            *)
(***************************************************************************)
ExpiresInChoices == {0, 3600}

\* refreshAccessToken's result for the provider's answer to a refresh grant
refreshAccessToken(refreshToken, expires_in, rotate) ==
    [accessToken |-> AT(refreshToken.owner, issued + 1),
     expiresAt |-> IF expires_in # 0 THEN AddMs(now, expires_in * 1000) ELSE NullTime,
     refreshToken |-> IF rotate THEN RT(refreshToken.owner, issued + 1) ELSE NoToken]

(***************************************************************************)
(* drive-upload: the public-upload gateway.                                *)
(***************************************************************************)
Respond(g, status, body) ==
    [g EXCEPT !.pc = "done", !.response = [status |-> status, body |-> body]]

\* form.get("code") || form.get("linkCode") || form.get("link")
RawCodeOf(code, linkCodeField, link) ==
    IF code # << >> THEN code
    ELSE IF linkCodeField # << >> THEN linkCodeField
    ELSE link

\* method, upload-gate secret and content type; then await req.formData()
GwReceive(r) ==
    /\ gw[r].pc = "idle"
    /\ \E method \in {"POST", "GET"}, token \in {"", UPLOAD_TOKEN}, multipart \in BOOLEAN :
        gw' = [gw EXCEPT ![r] =
            IF method # "POST" THEN Respond(@, 405, <<Text("Method Not Allowed")>>)
            ELSE IF token # UPLOAD_TOKEN THEN Respond(@, 401, <<Text("Unauthorized")>>)
            ELSE IF ~multipart
                THEN Respond(@, 400, <<Text("Expected multipart/form-data")>>)
            ELSE [@ EXCEPT !.pc = "formData"]]
    /\ UNCHANGED <<up, dl, feed, cr, boxes, cl, now, pull_boxes, user_oauth_tokens, issued, session, driveLog, ep>>

\* the submitted values of the code fields, and of files plus file
SubmittedCodes ==
    {RawCodeOf(code, linkCodeField, link) :
        code \in RawCodes, linkCodeField \in RawLinkCodes, link \in RawLinks}

SubmittedFiles ==
    {fs \in {IF singleField = NoFile THEN filesField ELSE Append(filesField, singleField) :
                filesField \in TypeSeqs(MaxFiles), singleField \in ContentTypes \cup {NoFile}} :
        Len(fs) <= MaxFiles}

\* the link code and the files of the form
GwFormData(r) ==
    /\ gw[r].pc = "formData"
    /\ \E rawCode \in SubmittedCodes, files \in SubmittedFiles :
        LET linkCode == extractLinkCode(rawCode)
            g == [gw[r] EXCEPT !.linkCode = linkCode, !.files = files]
        IN gw' = [gw EXCEPT ![r] =
                IF linkCode = NullCode
                    THEN Respond(g, 400, <<Text("Missing link code")>>)
                ELSE IF files = << >> THEN Respond(g, 400, <<Text("Missing file")>>)
                ELSE IF \E i \in 1..Len(files) : ~startsWithImage(files[i])
                    THEN Respond(g, 400, <<Text("Only images allowed")>>)
                ELSE [g EXCEPT !.pc = "selectBox"]]
    /\ UNCHANGED <<up, dl, feed, cr, boxes, cl, now, pull_boxes, user_oauth_tokens, issued, session, driveLog, ep>>

\* box.expires_at && Date.parse(box.expires_at) <= Date.now()
LinkExpired_Strict(box, t) == box.expires_at # NullTime /\ Before(box.expires_at, t)

LinkExpired(box, t) == box.expires_at # NullTime /\ NotAfter(box.expires_at, t)

\* ResolveCode and CheckExpiry
GwSelectBox(r) ==
    /\ gw[r].pc = "selectBox"
    /\ LET rows == BoxesByCode(gw[r].linkCode)
           box == single(rows, NoBox)
       IN gw' = [gw EXCEPT ![r] =
                IF box = NoBox THEN Respond(@, 404, <<Text("Invalid link")>>)
                ELSE IF LinkExpired(box, now)
                    THEN Respond([@ EXCEPT !.box = box], 410, <<Text("Link expired")>>)
                ELSE [@ EXCEPT !.pc = "selectToken", !.box = box]]
    /\ UNCHANGED <<up, dl, feed, cr, boxes, cl, now, pull_boxes, user_oauth_tokens, issued, session, driveLog, ep>>

\* the key of the credential row the gateway reads and writes
GwTokenOwner_AnyRow(r) ==
    IF user_oauth_tokens = {} THEN gw[r].box.owner_id
    ELSE (CHOOSE t \in user_oauth_tokens : TRUE).user_id

GwTokenOwner(r) == gw[r].box.owner_id

\* ResolveOwnerToken: read the credential row and decide on a refresh
GwSelectToken(r) ==
    /\ gw[r].pc = "selectToken"
    /\ LET rows == TokenRowsOf(GwTokenOwner(r))
           tokenRow == single(rows, NoRow)
           accessToken == tokenRow.access_token
           needsRefresh == accessToken = NoToken \/ isExpired(tokenRow.expires_at, now)
           g == [gw[r] EXCEPT !.credRows = @ \cup {GwTokenOwner(r)}]
       IN gw' = [gw EXCEPT ![r] =
                IF tokenRow = NoRow
                      \/ (tokenRow.access_token = NoToken /\ tokenRow.refresh_token = NoToken)
                    THEN Respond(g, 403, <<Text("Owner not connected")>>)
                ELSE IF tokenRow.refresh_token # NoToken /\ needsRefresh
                    THEN [g EXCEPT !.pc = "refresh", !.tokenRow = tokenRow,
                                   !.accessToken = accessToken]
                ELSE IF accessToken = NoToken
                    THEN Respond(g, 403, <<Text("Owner not connected")>>)
                ELSE [g EXCEPT !.pc = "upload", !.tokenRow = tokenRow,
                               !.accessToken = accessToken]]
    /\ UNCHANGED <<up, dl, feed, cr, boxes, cl, now, pull_boxes, user_oauth_tokens, issued, session, driveLog, ep>>

\* the refresh exchange succeeds
GwRefreshOk(r) ==
    /\ gw[r].pc = "refresh"
    /\ issued < MaxIssued
    /\ \E expires_in \in ExpiresInChoices, rotate \in BOOLEAN :
        LET refreshed == refreshAccessToken(gw[r].tokenRow.refresh_token, expires_in, rotate)
        IN gw' = [gw EXCEPT ![r] = [@ EXCEPT !.pc = "updateToken",
                                             !.refreshed = refreshed,
                                             !.accessToken = refreshed.accessToken,
                                             !.refreshCalls = @ + 1]]
    /\ issued' = issued + 1
    /\ UNCHANGED <<up, dl, feed, cr, boxes, cl, now, pull_boxes, user_oauth_tokens, session, driveLog, ep>>

\* the refresh exchange is rejected: refreshAccessToken throws
GwRefreshFailed_ClearsToken(r) ==
    /\ gw[r].pc = "refresh"
    /\ gw' = [gw EXCEPT ![r] =
            Respond([@ EXCEPT !.refreshCalls = @ + 1], 502,
                    <<Text("Owner token refresh failed")>>)]
    /\ user_oauth_tokens' =
            UpdateTokenRow(GwTokenOwner(r), NoToken, gw[r].tokenRow.refresh_token, NullTime)
    /\ UNCHANGED <<up, dl, feed, cr, boxes, cl, now, pull_boxes, issued, session, driveLog, ep>>

GwRefreshFailed_UsesStored(r) ==
    /\ gw[r].pc = "refresh"
    /\ gw' = [gw EXCEPT ![r] =
            IF @.accessToken = NoToken
                THEN Respond([@ EXCEPT !.refreshCalls = @ + 1], 502,
                             <<Text("Owner token refresh failed")>>)
            ELSE [@ EXCEPT !.refreshCalls = @ + 1, !.pc = "upload"]]
    /\ UNCHANGED <<up, dl, feed, cr, boxes, cl, now, pull_boxes, user_oauth_tokens, issued, session,
                   driveLog, ep>>

GwRefreshFailed(r) ==
    /\ gw[r].pc = "refresh"
    /\ gw' = [gw EXCEPT ![r] =
            Respond([@ EXCEPT !.refreshCalls = @ + 1], 502,
                    <<Text("Owner token refresh failed")>>)]
    /\ UNCHANGED <<up, dl, feed, cr, boxes, cl, now, pull_boxes, user_oauth_tokens, issued, session, driveLog, ep>>

\* refreshed.refreshToken ?? tokenRow.refresh_token
RefreshTokenToWrite_FromResponse(refreshed, tokenRow) == refreshed.refreshToken

RefreshTokenToWrite(refreshed, tokenRow) ==
    IF refreshed.refreshToken # NoToken THEN refreshed.refreshToken
    ELSE tokenRow.refresh_token

\* persist the refreshed credential, then the !accessToken check
GwUpdateToken(r) ==
    /\ gw[r].pc = "updateToken"
    /\ user_oauth_tokens' =
            UpdateTokenRow(GwTokenOwner(r), gw[r].accessToken,
                           RefreshTokenToWrite(gw[r].refreshed, gw[r].tokenRow),
                           gw[r].refreshed.expiresAt)
    /\ LET g == [gw[r] EXCEPT !.credRows = @ \cup {GwTokenOwner(r)},
                               !.tokenWrites = @ + 1]
       IN gw' = [gw EXCEPT ![r] =
                IF g.accessToken = NoToken
                    THEN Respond(g, 403, <<Text("Owner not connected")>>)
                ELSE [g EXCEPT !.pc = "upload"]]
    /\ UNCHANGED <<up, dl, feed, cr, boxes, cl, now, pull_boxes, issued, session, driveLog, ep>>

\* the body of the 502 answer: `Upload failed: ${err.message}`
UploadFailedBody_WithToken(r, message) ==
    <<Text("Upload failed: "), Text(message), gw[r].accessToken>>

UploadFailedBody(r, message) == <<Text("Upload failed: "), Text(message)>>

\* what uploadToDrive sends: the bearer token and the parent folder
uploadToDrive(r, i) ==
    [req |-> r, file |-> i, folder |-> gw[r].box.drive_folder_id,
     token |-> gw[r].accessToken]

\* the provider's answers to the create-file request
UploadOutcomes == {"ok", "unauthorized", "error"}

\* const nextCount = (box.photo_count ?? 0) + results.length
nextCount_OneMore(box, results) == box.photo_count + Len(results) + 1

nextCount(box, results) == box.photo_count + Len(results)

\* one iteration of the upload loop; a throw leaves the loop for the catch
GwUpload_CountsEachFile(r) ==
    /\ gw[r].pc = "upload"
    /\ gw[r].attempted < Len(gw[r].files)
    /\ \E outcome \in UploadOutcomes :
        LET i == gw[r].attempted + 1
            sent == uploadToDrive(r, i)
            g == [gw[r] EXCEPT !.attempted = i, !.lastUpload = outcome]
            results == Append(g.results, [id |-> <<r, i>>, name |-> i])
        IN IF outcome = "ok"
           THEN /\ driveLog' = driveLog \cup {sent}
                /\ pull_boxes' =
                        UpdatePhotoCount(g.box.id, g.box.photo_count + Len(results))
                /\ gw' = [gw EXCEPT ![r] =
                        IF i < Len(g.files) THEN [g EXCEPT !.results = results]
                        ELSE [g EXCEPT !.results = results, !.pc = "updateCount"]]
           ELSE /\ driveLog' = driveLog
                /\ pull_boxes' = pull_boxes
                /\ gw' = [gw EXCEPT ![r] = Respond(g, 502, UploadFailedBody(r, outcome))]
    /\ feed' = UpdateEvents
    /\ UNCHANGED <<up, dl, cr, boxes, cl, now, user_oauth_tokens, issued, session, ep>>

GwUpload(r) ==
    /\ gw[r].pc = "upload"
    /\ gw[r].attempted < Len(gw[r].files)
    /\ \E outcome \in UploadOutcomes :
        LET i == gw[r].attempted + 1
            sent == uploadToDrive(r, i)
            g == [gw[r] EXCEPT !.attempted = i, !.lastUpload = outcome]
            results == Append(g.results, [id |-> <<r, i>>, name |-> i])
        IN IF outcome = "ok"
           THEN /\ driveLog' = driveLog \cup {sent}
                /\ gw' = [gw EXCEPT ![r] =
                        IF i < Len(g.files) THEN [g EXCEPT !.results = results]
                        ELSE IF Len(results) > 0
                            THEN [g EXCEPT !.results = results, !.pc = "updateCount"]
                        ELSE Respond([g EXCEPT !.results = results], 200, results)]
           ELSE /\ driveLog' = driveLog
                /\ gw' = [gw EXCEPT ![r] = Respond(g, 502, UploadFailedBody(r, outcome))]
    /\ UNCHANGED <<up, dl, feed, cr, boxes, cl, now, pull_boxes, user_oauth_tokens, issued, session, ep>>

\* (box.photo_count ?? 0) + results.length, written back, then the 200 answer
GwUpdateCount(r) ==
    /\ gw[r].pc = "updateCount"
    /\ pull_boxes' = UpdatePhotoCount(gw[r].box.id, nextCount(gw[r].box, gw[r].results))
    /\ gw' = [gw EXCEPT ![r] =
            Respond([@ EXCEPT !.countWrites = @ + 1], 200, gw[r].results)]
    /\ feed' = UpdateEvents
    /\ UNCHANGED <<up, dl, cr, boxes, cl, now, user_oauth_tokens, issued, session, driveLog, ep>>

(***************************************************************************)
(* Owner login and persistGoogleToken.                                     *)
(***************************************************************************)
NoSession == [provider_token |-> NoToken, provider_refresh_token |-> NoToken,
              expires_at |-> 0]

\* session.expires_at, in seconds; 0 stands for an absent value
SessionExpiryChoices == {0, 3600}

\* the identity provider delivers a session carrying fresh provider tokens
Login(o) ==
    /\ issued < MaxIssued
    /\ \E withRefresh \in BOOLEAN, exp \in SessionExpiryChoices :
        session' = [session EXCEPT ![o] =
            [provider_token |-> AT(o, issued + 1),
             provider_refresh_token |-> IF withRefresh THEN RT(o, issued + 1) ELSE NoToken,
             expires_at |-> exp]]
    /\ issued' = issued + 1
    /\ UNCHANGED <<up, dl, feed, cr, boxes, cl, now, pull_boxes, user_oauth_tokens, driveLog, gw, ep>>

\* .upsert(payload, { onConflict: 'user_id,provider' })
UpsertTokenRow_Insert(owner, accessToken, expiresAt, refreshToken) ==
    user_oauth_tokens \cup
        {[user_id |-> owner, provider |-> "google", access_token |-> accessToken,
          refresh_token |-> refreshToken, expires_at |-> expiresAt]}

UpsertTokenRow(owner, accessToken, expiresAt, refreshToken) ==
    IF TokenRowsOf(owner) = {}
    THEN user_oauth_tokens \cup
            {[user_id |-> owner, provider |-> "google", access_token |-> accessToken,
              refresh_token |-> refreshToken, expires_at |-> expiresAt]}
    ELSE {IF t.user_id = owner /\ t.provider = "google"
            THEN [t EXCEPT !.access_token = accessToken,
                           !.expires_at = expiresAt,
                           !.refresh_token = IF refreshToken # NoToken THEN refreshToken
                                             ELSE @]
            ELSE t : t \in user_oauth_tokens}

persistGoogleToken(o) ==
    /\ session[o].provider_token # NoToken
    /\ user_oauth_tokens' =
            UpsertTokenRow(o, session[o].provider_token,
                           IF session[o].expires_at # 0
                               THEN AddMs(Epoch, session[o].expires_at * 1000)
                               ELSE NullTime,
                           session[o].provider_refresh_token)
    /\ UNCHANGED <<up, dl, feed, cr, boxes, cl, now, pull_boxes, issued, session, driveLog, gw, ep>>

\* Date.now() advances
Tick ==
    /\ now[2] < MaxTime
    /\ now' = AddMs(now, 1)
    /\ UNCHANGED <<up, dl, feed, cr, boxes, cl, pull_boxes, user_oauth_tokens, issued, session, driveLog, gw, ep>>

(***************************************************************************)
(* token-refresh: the owner token-refresh endpoint.                        *)
(***************************************************************************)
EpIdle == [pc |-> "idle", user |-> "-", tokenRow |-> NoRow, accessToken |-> NoToken,
           refreshed |-> NoRefreshed, response |-> NoResponse, refreshCalls |-> 0,
           tokenWrites |-> 0]

\* Response.json({ accessToken, expiresAt })
TokenBody(accessToken, expiresAt) == <<accessToken, [expiresAt |-> expiresAt]>>

\* method, Authorization header and auth.getUser()
EpReceive(e) ==
    /\ ep[e].pc = "idle"
    /\ \E method \in {"POST", "GET", "OPTIONS"}, authHeader \in BOOLEAN,
          user \in Owners \cup {"-"} :
        ep' = [ep EXCEPT ![e] =
            IF method = "OPTIONS" THEN Respond(@, 200, <<Text("ok")>>)
            ELSE IF method # "POST" THEN Respond(@, 405, <<Text("Method Not Allowed")>>)
            ELSE IF ~authHeader \/ user = "-" THEN Respond(@, 401, <<Text("Unauthorized")>>)
            ELSE [@ EXCEPT !.pc = "selectToken", !.user = user]]
    /\ UNCHANGED <<up, dl, feed, cr, boxes, cl, now, pull_boxes, user_oauth_tokens, issued, session, driveLog, gw>>

EpSelectToken(e) ==
    /\ ep[e].pc = "selectToken"
    /\ LET tokenRow == single(TokenRowsOf(ep[e].user), NoRow)
           accessToken == tokenRow.access_token
           needsRefresh == accessToken = NoToken \/ isExpired(tokenRow.expires_at, now)
       IN ep' = [ep EXCEPT ![e] =
                IF tokenRow = NoRow
                      \/ (tokenRow.access_token = NoToken /\ tokenRow.refresh_token = NoToken)
                    THEN Respond(@, 403, <<Text("Owner not connected")>>)
                ELSE IF tokenRow.refresh_token # NoToken /\ needsRefresh
                    THEN [@ EXCEPT !.pc = "refresh", !.tokenRow = tokenRow,
                                   !.accessToken = accessToken]
                ELSE IF accessToken = NoToken
                    THEN Respond(@, 403, <<Text("Owner not connected")>>)
                ELSE Respond([@ EXCEPT !.tokenRow = tokenRow, !.accessToken = accessToken],
                             200, TokenBody(accessToken, tokenRow.expires_at))]
    /\ UNCHANGED <<up, dl, feed, cr, boxes, cl, now, pull_boxes, user_oauth_tokens, issued, session, driveLog, gw>>

EpRefreshOk(e) ==
    /\ ep[e].pc = "refresh"
    /\ issued < MaxIssued
    /\ \E expires_in \in ExpiresInChoices, rotate \in BOOLEAN :
        LET refreshed == refreshAccessToken(ep[e].tokenRow.refresh_token, expires_in, rotate)
        IN ep' = [ep EXCEPT ![e] = [@ EXCEPT !.pc = "updateToken",
                                             !.refreshed = refreshed,
                                             !.accessToken = refreshed.accessToken,
                                             !.refreshCalls = @ + 1]]
    /\ issued' = issued + 1
    /\ UNCHANGED <<up, dl, feed, cr, boxes, cl, now, pull_boxes, user_oauth_tokens, session, driveLog, gw>>

EpRefreshFailed(e) ==
    /\ ep[e].pc = "refresh"
    /\ ep' = [ep EXCEPT ![e] =
            Respond([@ EXCEPT !.refreshCalls = @ + 1], 502,
                    <<Text("Token refresh failed: "), Text("invalid_grant")>>)]
    /\ UNCHANGED <<up, dl, feed, cr, boxes, cl, now, pull_boxes, user_oauth_tokens, issued, session, driveLog, gw>>

EpUpdateToken(e) ==
    /\ ep[e].pc = "updateToken"
    /\ user_oauth_tokens' =
            UpdateTokenRow(ep[e].user, ep[e].accessToken,
                           RefreshTokenToWrite(ep[e].refreshed, ep[e].tokenRow),
                           ep[e].refreshed.expiresAt)
    /\ ep' = [ep EXCEPT ![e] =
            Respond([@ EXCEPT !.tokenWrites = @ + 1], 200,
                    TokenBody(ep[e].accessToken, ep[e].refreshed.expiresAt))]
    /\ UNCHANGED <<up, dl, feed, cr, boxes, cl, now, pull_boxes, issued, session, driveLog, gw>>

(***************************************************************************)
(* GoogleDriveService: authorizedFetch and its callers.                    *)
(*                                                                         *)
(* sent is the sequence of bearer tokens of the requests of the current    *)
(* (or last) call; firstStatus, refreshed, refresherCalls, status and      *)
(* outcome record what that call did.                                      *)
(***************************************************************************)
\* new GoogleDriveService(token, tokenRefresher); the constructor rejects an
\* empty token
ClientNew(token, hasRefresher) ==
    [accessToken |-> token, tokenRefresher |-> hasRefresher, pc |-> "idle",
     op |-> "-", retry |-> TRUE, sent |-> << >>, firstStatus |-> 0,
     refreshed |-> NoToken, refresherCalls |-> 0, status |-> 0,
     outcome |-> "none", calls |-> 0]

\* the callers of authorizedFetch: fetchWithAuth (createFolder, listFiles,
\* deleteFile, getUserInfo), uploadFile and downloadFile
ClientOps == {"fetchWithAuth", "uploadFile", "downloadFile"}

\* the provider's answers to a request
ClientStatuses == {200, 401, 500}

\* what the token refresher resolves to; a rejection is caught as null
RefresherResults == {AT("o1", k) : k \in 0..MaxIssued} \cup {NoToken}

\* response.ok
ok(status) == status >= 200 /\ status <= 299

\* every caller throws on a response that is not ok (response bodies are
\* taken to be well-formed)
Outcome(op, status) == IF ok(status) THEN "ok" ELSE "thrown"

\* authorizedFetch returns `response` to its caller, which finishes the call
ClientReturn(c, status) ==
    [c EXCEPT !.pc = "idle", !.status = status, !.outcome = Outcome(c.op, status),
              !.calls = @ + 1]

\* a call is made through the client: authorizedFetch(url, options, retry = true)
ClCall ==
    /\ cl.pc = "idle"
    /\ cl.calls < MaxCalls
    /\ \E op \in ClientOps :
        cl' = [cl EXCEPT !.pc = "fetch", !.op = op, !.retry = TRUE, !.sent = << >>,
                         !.firstStatus = 0, !.refreshed = NoToken,
                         !.refresherCalls = 0, !.status = 0, !.outcome = "none"]
    /\ UNCHANGED <<up, serverVars, cr, boxes, dl, feed>>

\* response.status === 401 && retry && this.tokenRefresher
WantsRefresh(c, status) == status = 401 /\ c.retry /\ c.tokenRefresher

\* the request is sent with the current token and answered
ClFetch ==
    /\ cl.pc = "fetch"
    /\ \E status \in ClientStatuses :
        LET c == [cl EXCEPT !.sent = Append(@, cl.accessToken),
                            !.firstStatus = IF cl.sent = << >> THEN status ELSE @]
        IN cl' = IF WantsRefresh(c, status)
                 THEN [c EXCEPT !.pc = "refreshing", !.status = status]
                 ELSE ClientReturn(c, status)
    /\ UNCHANGED <<up, serverVars, cr, boxes, dl, feed>>

\* refreshed && refreshed !== this.accessToken
RefreshUsable_AnyToken(refreshed, current) == refreshed # NoToken

RefreshUsable(refreshed, current) == refreshed # NoToken /\ refreshed # current

\* the retry argument of the recursive call
RetryAfterRefresh_Again == TRUE

RetryAfterRefresh == FALSE

\* await this.tokenRefresher().catch(() => null), then the retry or the return
ClRefresh ==
    /\ cl.pc = "refreshing"
    /\ \E result \in RefresherResults, rejects \in BOOLEAN :
        LET refreshed == IF rejects THEN NoToken ELSE result
            c == [cl EXCEPT !.refreshed = refreshed, !.refresherCalls = @ + 1]
        IN cl' = IF RefreshUsable(refreshed, cl.accessToken)
                 THEN [c EXCEPT !.accessToken = refreshed, !.retry = RetryAfterRefresh,
                                !.pc = "fetch"]
                 ELSE ClientReturn(c, cl.status)
    /\ UNCHANGED <<up, serverVars, cr, boxes, dl, feed>>

ClStep == ClCall \/ ClFetch \/ ClRefresh

(***************************************************************************)
(* The dashboard: handleCreateBox.                                         *)
(*                                                                         *)
(* The name and created_at columns play no part and are left out.  codes   *)
(* and answers record the link codes the call generated and the store's    *)
(* answers to its inserts; thrown is the error that left the try block.    *)
(***************************************************************************)
DEFAULT_EXPIRY_DAYS == 90
InsertAttempts == 3             \* for (let i = 0; i < 3; i += 1)

Creates == {"c1", "c2"}         \* calls of handleCreateBox
AppUsers == {"o1", "o2", "demo"}

\* u?.id === 'demo' (the demo user's mock tokens come with that id)
isDemoUser(u) == u = "demo"

\* the values generateLinkCode may return: Math.random().toString(36)
\* .substr(2, 6).toUpperCase() is a string of at most 6 characters 0-9 A-Z
GeneratedCodes == {CodeAB12, <<"Z", "Z", "9", "9">>, <<"A", "1", "B", "2", "C", "3">>}

NoPullBox == [id |-> "-", ownerId |-> "-", driveFolderId |-> "-", linkCode |-> NullCode,
              expiresAt |-> NullTime, photoCount |-> 0]

mapPullBox(row) ==
    [id |-> row.id, ownerId |-> row.owner_id, driveFolderId |-> row.drive_folder_id,
     linkCode |-> row.link_code, expiresAt |-> row.expires_at,
     photoCount |-> row.photo_count]

\* the alert of the catch block, and the message of the error thrown when
\* no insert succeeded
AlertCreateFolder ==
    "Failed to create folder. If your session expired, please logout and login again."
ErrorCreatePullBox == "Failed to create Pull-Box. Please try again."

CrIdle == [pc |-> "idle", user |-> "-", boxes |-> << >>, folder |-> "-",
           expiresAt |-> NullTime, i |-> 0, createdBox |-> NoPullBox,
           codes |-> << >>, answers |-> << >>, thrown |-> "", alert |-> ""]

\* the folder the provider creates for call c, and the id of the row the
\* store (or, for the demo user, Math.random) gives its Collection
FolderOf(c) == IF c = "c1" THEN "fc1" ELSE "fc2"
NewBoxId(c) == IF c = "c1" THEN "n1" ELSE "n2"

\* catch (err) { alert(...) }
CrCatch(k, err) == [k EXCEPT !.pc = "done", !.thrown = err, !.alert = AlertCreateFolder]

\* the store's unique constraint on pull_boxes.link_code (error 23505)
LinkCodeTaken(code) == \E b \in pull_boxes : b.link_code = code

\* the row an insert adds: id and photo_count are the table's defaults
InsertedRow(c, linkCode) ==
    [id |-> NewBoxId(c), owner_id |-> cr[c].user, drive_folder_id |-> cr[c].folder,
     link_code |-> linkCode, expires_at |-> cr[c].expiresAt, photo_count |-> 0]

\* a signed-in user submits the create form; the handler closes over the
\* list `boxes` of the render it was created in
CrCall(c) ==
    /\ cr[c].pc = "idle"
    /\ \E user \in AppUsers :
        cr' = [cr EXCEPT ![c] = [@ EXCEPT !.pc = "createFolder", !.user = user,
                                          !.boxes = boxes[user]]]
    /\ UNCHANGED <<up, serverVars, cl, boxes, dl, feed>>

\* await driveService.createFolder(name); the demo user's Collection is
\* built and listed at once
CrCreateFolder(c) ==
    /\ cr[c].pc = "createFolder"
    /\ \E created \in BOOLEAN, linkCode \in GeneratedCodes :
        LET k == [cr[c] EXCEPT !.folder = FolderOf(c)]
            newBox == [id |-> NewBoxId(c), ownerId |-> k.user, driveFolderId |-> k.folder,
                       linkCode |-> linkCode,
                       expiresAt |-> AddDays(now, DEFAULT_EXPIRY_DAYS), photoCount |-> 0]
        IN IF ~created
           THEN /\ cr' = [cr EXCEPT ![c] = CrCatch(@, "createFolder")]
                /\ boxes' = boxes
           ELSE IF isDemoUser(k.user)
           THEN /\ cr' = [cr EXCEPT ![c] =
                        [k EXCEPT !.pc = "done", !.createdBox = newBox,
                                  !.codes = <<linkCode>>]]
                /\ boxes' = [boxes EXCEPT ![k.user] = <<newBox>> \o k.boxes]
           ELSE /\ cr' = [cr EXCEPT ![c] =
                        [k EXCEPT !.pc = "insert",
                                  !.expiresAt = AddDays(now, DEFAULT_EXPIRY_DAYS)]]
                /\ boxes' = boxes
    /\ UNCHANGED <<up, serverVars, cl, dl, feed>>

\* one iteration of the insert loop, and what follows the loop when it ends
CrInsert(c) ==
    /\ cr[c].pc = "insert"
    /\ \E linkCode \in GeneratedCodes, storeError \in BOOLEAN :
        LET k == [cr[c] EXCEPT !.i = @ + 1, !.codes = Append(@, linkCode)]
            row == InsertedRow(c, linkCode)
        IN IF storeError
           THEN /\ cr' = [cr EXCEPT ![c] =
                        CrCatch([k EXCEPT !.answers = Append(@, "error")], "insert")]
                /\ UNCHANGED <<pull_boxes, boxes, feed>>
           ELSE IF LinkCodeTaken(linkCode)
           THEN /\ cr' = [cr EXCEPT ![c] =
                        LET j == [k EXCEPT !.answers = Append(@, "23505")]
                        IN IF j.i < InsertAttempts THEN j
                           ELSE CrCatch(j, ErrorCreatePullBox)]
                /\ UNCHANGED <<pull_boxes, boxes, feed>>
           ELSE /\ pull_boxes' = pull_boxes \cup {row}
                /\ feed' = Publish(row.owner_id, ChangeEvent("INSERT", row.id, row))
                /\ cr' = [cr EXCEPT ![c] =
                        [k EXCEPT !.pc = "done", !.answers = Append(@, "ok"),
                                  !.createdBox = mapPullBox(row)]]
                /\ boxes' = [boxes EXCEPT ![k.user] = <<mapPullBox(row)>> \o k.boxes]
    /\ UNCHANGED <<up, now, user_oauth_tokens, issued, session, driveLog, gw, ep, cl, dl>>

CrStep(c) == CrCall(c) \/ CrCreateFolder(c) \/ CrInsert(c)

(***************************************************************************)
(* The dashboard: handleDeleteBox, the first load of the list and the      *)
(* callback of the postgres_changes subscription.                          *)
(***************************************************************************)
Deletes == {"d1"}

\* no dashboard is subscribed
NoFeed == [u \in {} |-> << >>]

DlIdle == [pc |-> "idle", user |-> "-", id |-> "-", boxes |-> << >>, alert |-> ""]

AlertDelete == "Delete failed. Please try again."

\* list.filter(b => b.id !== id)
WithoutId(list, id) == LET Keep(b) == b.id # id IN SelectSeq(list, Keep)

\* prev.findIndex(b => b.id === id), 0 standing for -1
findIndex(list, id) ==
    IF \E i \in 1..Len(list) : list[i].id = id
    THEN CHOOSE i \in 1..Len(list) : list[i].id = id /\ \A j \in 1..(i - 1) : list[j].id # id
    ELSE 0

\* the user clicks the delete button of a listed Collection; the handler
\* closes over the list `boxes` of the render it was created in
DlCall(d) ==
    /\ dl[d].pc = "idle"
    /\ \E user \in AppUsers : \E i \in 1..Len(boxes[user]) :
        LET id == boxes[user][i].id
            k == [dl[d] EXCEPT !.user = user, !.id = id, !.boxes = boxes[user]]
        IN IF isDemoUser(user)
           THEN /\ dl' = [dl EXCEPT ![d] = [k EXCEPT !.pc = "done"]]
                /\ boxes' = [boxes EXCEPT ![user] = WithoutId(k.boxes, id)]
           ELSE /\ dl' = [dl EXCEPT ![d] = [k EXCEPT !.pc = "delete"]]
                /\ boxes' = boxes
    /\ UNCHANGED <<up, serverVars, cl, cr, feed>>

\* await supabase.from('pull_boxes').delete().eq('id', id).eq('owner_id', user.id)
DlDelete(d) ==
    /\ dl[d].pc = "delete"
    /\ \E storeError \in BOOLEAN :
        LET k == dl[d]
            deleted == {b \in pull_boxes : b.id = k.id /\ b.owner_id = k.user}
        IN IF storeError
           THEN /\ dl' = [dl EXCEPT ![d] = [k EXCEPT !.pc = "done", !.alert = AlertDelete]]
                /\ UNCHANGED <<pull_boxes, boxes, feed>>
           ELSE /\ pull_boxes' = pull_boxes \ deleted
                /\ feed' = IF deleted = {} THEN feed
                            ELSE Publish(k.user, ChangeEvent("DELETE", k.id, NoBox))
                /\ dl' = [dl EXCEPT ![d] = [k EXCEPT !.pc = "done"]]
                /\ boxes' = [boxes EXCEPT ![k.user] = WithoutId(k.boxes, k.id)]
    /\ UNCHANGED <<up, now, user_oauth_tokens, issued, session, driveLog, gw, ep, cl, cr>>

DlStep(d) == DlCall(d) \/ DlDelete(d)

\* fetchBoxes: the user's rows, mapped (one row per owner at deployment)
fetchBoxes(u) ==
    LET rows == {b \in pull_boxes : b.owner_id = u}
    IN IF rows = {} THEN << >> ELSE <<mapPullBox(CHOOSE b \in rows : TRUE)>>

\* the callback of the subscription handles the next event of dashboard u
FeedDeliver(u) ==
    /\ feed[u] # << >>
    /\ LET payload == Head(feed[u])
           prev == boxes[u]
       IN boxes' = [boxes EXCEPT ![u] =
            IF payload.eventType = "DELETE" THEN WithoutId(prev, payload.id)
            ELSE LET mapped == mapPullBox(payload.new)
                     existingIndex == findIndex(prev, mapped.id)
                 IN IF existingIndex = 0 THEN <<mapped>> \o prev
                    ELSE [prev EXCEPT ![existingIndex] = mapped]]
    /\ feed' = [feed EXCEPT ![u] = Tail(@)]
    /\ UNCHANGED <<up, serverVars, cl, cr, dl>>

(***************************************************************************)
(* The upload page: startUpload and uploadViaEdge, in the component of     *)
(* Uploader.tsx and in its copy in Dashboard.tsx.                          *)
(*                                                                         *)
(* uploads is the state `uploads`, keyed by file name; requests records,   *)
(* per selected file, how its upload request ended.                        *)
(***************************************************************************)
Components == {"Uploader.tsx", "Dashboard.tsx"}

\* the names of the files a guest can select; a picker may hand out
\* several files under one name
FileNames == {"a.jpg", "b.jpg"}

SelectedFiles == UNION {[1..k -> FileNames] : k \in 0..MaxFiles}

UpIdle == [pc |-> "idle", component |-> "-", useEdgeUpload |-> FALSE, files |-> << >>,
           uploads |-> << >>, at |-> 0, requests |-> << >>,
           isUploading |-> FALSE, isCompleted |-> FALSE]

\* the outcomes of compressImage, and of the fetch of an upload request:
\* a response with res.ok, a response without, or a rejection (TypeError)
CompressOutcomes == {"ok", "error"}
FetchOutcomes == {"ok", "notOk", "TypeError"}

\* setUploads(prev => ({ ...prev, [name]: { ...prev[name], status } }))
setStatus(uploads, name, status) ==
    [n \in DOMAIN uploads \cup {name} |-> IF n = name THEN status ELSE uploads[n]]

\* handleFileSelect
UpSelect ==
    /\ up.pc = "idle"
    /\ \E component \in Components, useEdgeUpload \in BOOLEAN, files \in SelectedFiles :
        up' = [up EXCEPT !.pc = "selected", !.component = component,
                         !.useEdgeUpload = useEdgeUpload, !.files = files]
    /\ UNCHANGED <<serverVars, cl, cr, boxes, dl, feed>>

\* startUpload up to the loop: one entry of progressMap per file name
UpStart ==
    /\ up.pc = "selected"
    /\ Len(up.files) > 0
    /\ up' = [up EXCEPT !.pc = "loop", !.at = 1, !.isUploading = TRUE,
                        !.requests = [i \in 1..Len(up.files) |-> "none"],
                        !.uploads = [n \in {up.files[i] : i \in 1..Len(up.files)} |->
                                        "pending"]]
    /\ UNCHANGED <<serverVars, cl, cr, boxes, dl, feed>>

\* the head of an iteration, up to await compressImage; after the last
\* file, the end of startUpload
UpNextFile ==
    /\ up.pc = "loop"
    /\ up' = IF up.at <= Len(up.files)
             THEN [up EXCEPT !.pc = "compress",
                             !.uploads = setStatus(@, up.files[up.at], "uploading")]
             ELSE [up EXCEPT !.pc = "done", !.isUploading = FALSE, !.isCompleted = TRUE]
    /\ UNCHANGED <<serverVars, cl, cr, boxes, dl, feed>>

\* catch (err): the file's entry becomes error and the loop goes on
UpCatch(u) ==
    [u EXCEPT !.pc = "loop", !.at = @ + 1,
              !.uploads = setStatus(@, u.files[u.at], "error")]

\* await compressImage(file, 0.7)
UpCompress ==
    /\ up.pc = "compress"
    /\ \E outcome \in CompressOutcomes :
        up' = IF outcome = "ok" THEN [up EXCEPT !.pc = "upload"] ELSE UpCatch(up)
    /\ UNCHANGED <<serverVars, cl, cr, boxes, dl, feed>>

\* uploadViaEdge and driveService.uploadFile throw unless the response is
\* ok; the copy of uploadViaEdge in Dashboard.tsx returns on a TypeError
Throws(u, outcome) ==
    IF u.useEdgeUpload /\ u.component = "Dashboard.tsx" THEN outcome = "notOk"
    ELSE outcome # "ok"

\* await uploadViaEdge(...) or await driveService.uploadFile(...), then the
\* completed entry or the catch
UpUpload ==
    /\ up.pc = "upload"
    /\ \E outcome \in FetchOutcomes :
        LET u == [up EXCEPT !.requests[up.at] = outcome]
        IN up' = IF Throws(u, outcome) THEN UpCatch(u)
                 ELSE [u EXCEPT !.pc = "loop", !.at = @ + 1,
                                !.uploads = setStatus(@, u.files[u.at], "completed")]
    /\ UNCHANGED <<serverVars, cl, cr, boxes, dl, feed>>

UpStep == UpSelect \/ UpStart \/ UpNextFile \/ UpCompress \/ UpUpload

(***************************************************************************)
(* The deployment.  Owner o1 is connected with a refresh token and an      *)
(* access token that reaches the freshness margin at time 1; owner o2 is   *)
(* connected without a refresh token, with an access token that reaches    *)
(* the margin at time 2; owner o3 has no credential row.                   *)
(***************************************************************************)
Row1 == [user_id |-> "o1", provider |-> "google", access_token |-> AT("o1", 0),
         refresh_token |-> RT("o1", 0), expires_at |-> Instant(0, FRESHNESS_MARGIN_MS + 1)]
Row2 == [user_id |-> "o2", provider |-> "google", access_token |-> AT("o2", 0),
         refresh_token |-> NoToken, expires_at |-> Instant(0, FRESHNESS_MARGIN_MS + 2)]

ServerInit ==
    /\ now = Epoch
    /\ pull_boxes = {Box1, Box2, Box3}
    /\ user_oauth_tokens = {Row1, Row2}
    /\ issued = 0
    /\ session = [o \in Owners |-> NoSession]
    /\ driveLog = {}
    /\ gw = [r \in Reqs |-> GwIdle]
    /\ ep = [e \in EpCalls |-> EpIdle]

\* no call of handleCreateBox yet; the dashboards list nothing
AppInit ==
    /\ cr = [c \in Creates |-> CrIdle]
    /\ boxes = [u \in AppUsers |-> << >>]
    /\ dl = [d \in Deletes |-> DlIdle]
    /\ feed = NoFeed
    /\ up = UpIdle

Init ==
    /\ ServerInit
    /\ AppInit
    /\ cl = ClientNew(AT("o1", 0), FALSE)

\* one handler step of gateway request r
GwStep(r) ==
    \/ GwReceive(r)
    \/ GwFormData(r)
    \/ GwSelectBox(r)
    \/ GwSelectToken(r)
    \/ GwRefreshOk(r)
    \/ GwRefreshFailed(r)
    \/ GwUpdateToken(r)
    \/ GwUpload(r)
    \/ GwUpdateCount(r)

\* concurrent public uploads
Next == (\E r \in Reqs : GwStep(r)) \/ Tick

Spec == Init /\ [][Next]_vars

(***************************************************************************)
(* The credential lifecycle: one gateway request, one call of the          *)
(* token-refresh endpoint and the owner's logins, all on owner o1.         *)
(***************************************************************************)
EpStep(e) ==
    \/ EpReceive(e)
    \/ EpSelectToken(e)
    \/ EpRefreshOk(e)
    \/ EpRefreshFailed(e)
    \/ EpUpdateToken(e)

CredNext ==
    \/ GwStep("r1")
    \/ \E e \in EpCalls : EpStep(e)
    \/ Login("o1")
    \/ persistGoogleToken("o1")
    \/ Tick

CredSpec == Init /\ [][CredNext]_vars

(***************************************************************************)
(* The browser's Drive client making calls, with and without a refresher.  *)
(***************************************************************************)
ClientInit ==
    /\ ServerInit
    /\ AppInit
    /\ \E hasRefresher \in BOOLEAN : cl = ClientNew(AT("o1", 0), hasRefresher)

ClientNext == ClStep

ClientSpec == ClientInit /\ [][ClientNext]_vars

(***************************************************************************)
(* Token refresh on its own: a gateway request and a call of the           *)
(* token-refresh endpoint refreshing the stored credentials concurrently.  *)
(***************************************************************************)
RefreshNext == GwStep("r1") \/ (\E e \in EpCalls : EpStep(e)) \/ Tick

RefreshSpec == Init /\ [][RefreshNext]_vars

(***************************************************************************)
(* Owners signing in, with and without a credential row, next to a call    *)
(* of the token-refresh endpoint.                                          *)
(***************************************************************************)
OwnerNext ==
    \/ \E e \in EpCalls : EpStep(e)
    \/ \E o \in Owners : Login(o) \/ persistGoogleToken(o)
    \/ Tick

OwnerSpec == Init /\ [][OwnerNext]_vars

(***************************************************************************)
(* Owners and the demo user creating Collections concurrently.             *)
(***************************************************************************)
CreateNext == (\E c \in Creates : CrStep(c)) \/ Tick

CreateSpec == Init /\ [][CreateNext]_vars

(***************************************************************************)
(* The upload page on its own.                                             *)
(***************************************************************************)
UploaderNext == UpStep

UploaderSpec == Init /\ [][UploaderNext]_vars

(***************************************************************************)
(* The dashboards of the signed-in owners: their lists loaded, their       *)
(* subscriptions open, one creation, one deletion, and a gateway request   *)
(* that changes a counter.  Time stands still, so no stored token reaches  *)
(* the freshness margin and the gateway never refreshes one.               *)
(***************************************************************************)
Dashboards == {u \in AppUsers : ~isDemoUser(u)}

DashInit ==
    /\ ServerInit
    /\ cr = [c \in Creates |-> CrIdle]
    /\ dl = [d \in Deletes |-> DlIdle]
    /\ boxes = [u \in AppUsers |-> IF isDemoUser(u) THEN << >> ELSE fetchBoxes(u)]
    /\ feed = [u \in Dashboards |-> << >>]
    /\ up = UpIdle
    /\ cl = ClientNew(AT("o1", 0), FALSE)

DashNext ==
    \/ CrStep("c1")
    \/ \E d \in Deletes : DlStep(d)
    \/ \E u \in Dashboards : FeedDeliver(u)
    \/ GwReceive("r1") \/ GwFormData("r1") \/ GwSelectBox("r1")
    \/ GwSelectToken("r1") \/ GwUpload("r1") \/ GwUpdateCount("r1")

DashSpec == DashInit /\ [][DashNext]_vars

(***************************************************************************)
(* Properties of the public-upload gateway.                                *)
(***************************************************************************)
InitialBoxes == {Box1, Box2, Box3}

\* the Collection a request's link code resolves to in the store
ResolvedBox(r) == single(BoxesByCode(gw[r].linkCode), NoBox)

CounterOf(id) == (CHOOSE b \in pull_boxes : b.id = id).photo_count
InitialCounterOf(id) == (CHOOSE b \in InitialBoxes : b.id = id).photo_count

\* the files of request r the provider accepted
UploadedBy(r) == {u \in driveLog : u.req = r}

\* the files the response of request r reports as stored
ReportedBy(r) ==
    {i \in 1..Len(gw[r].files) :
        \E k \in DOMAIN gw[r].response.body :
            gw[r].response.body[k] = [id |-> <<r, i>>, name |-> i]}

\* C1: once a request has reached the upload loop and answered, every file
\* of the batch was attempted and every file the provider stored is reported
\* in the response, also when one upload failed.
C1_BatchNeverAborted ==
    \A r \in Reqs :
        (gw[r].pc = "done" /\ gw[r].attempted > 0) =>
            /\ gw[r].attempted = Len(gw[r].files)
            /\ ReportedBy(r) = {u.file : u \in UploadedBy(r)}

\* C2: after a gateway request (the only one that has run), the counter of
\* its Collection has grown by exactly the number of its files the provider
\* stored.
C2_CounterCountsSuccesses ==
    \A r \in Reqs :
        (/\ gw[r].pc = "done"
         /\ gw[r].box # NoBox
         /\ \A q \in Reqs \ {r} : gw[q].pc = "idle") =>
            CounterOf(gw[r].box.id) =
                InitialCounterOf(gw[r].box.id) + Cardinality(UploadedBy(r))

\* C3: when two requests against the same Collection have both finished with
\* every upload stored, the counter has grown by the sum of their results,
\* whatever the interleaving.
C3_NoLostUpdate ==
    \A r, q \in Reqs :
        (/\ r # q
         /\ gw[r].pc = "done" /\ gw[r].response.status = 200
         /\ gw[q].pc = "done" /\ gw[q].response.status = 200
         /\ gw[r].box.id = gw[q].box.id) =>
            CounterOf(gw[r].box.id) =
                InitialCounterOf(gw[r].box.id) + Len(gw[r].results) + Len(gw[q].results)

\* a request answered 410 has uploaded nothing, refreshed nothing and has not
\* written the counter
C4_RejectedDoesNothing ==
    \A r \in Reqs :
        gw[r].response.status = 410 =>
            /\ gw[r].attempted = 0
            /\ UploadedBy(r) = {}
            /\ gw[r].countWrites = 0
            /\ gw[r].refreshCalls = 0

\* the step that checks the expiry of a resolved Collection answers 410
\* exactly when expiresAt <= now
C4_CheckStep ==
    \A r \in Reqs :
        (gw[r].pc = "selectBox" /\ gw'[r].pc # "selectBox" /\ ResolvedBox(r) # NoBox) =>
            /\ NotAfter(ResolvedBox(r).expires_at, now) =>
                    (gw'[r].pc = "done" /\ gw'[r].response.status = 410)
            /\ Before(now, ResolvedBox(r).expires_at) => gw'[r].pc = "selectToken"
            /\ pull_boxes' = pull_boxes
            /\ driveLog' = driveLog

\* C4: the expiry check rejects with 410 every request whose Collection has
\* expiresAt <= now and lets pass every request whose Collection has
\* expiresAt > now; a rejected request uploads nothing and leaves the counter.
C4_ExpiryGate == []C4_RejectedDoesNothing /\ [][C4_CheckStep]_vars

\* one request rejected at the boundary expiresAt = now while another, which
\* resolved the same Collection before, is past the check
C4_Witness ==
    \E r, q \in Reqs :
        /\ gw[r].response.status = 410
        /\ gw[r].box.expires_at = now
        /\ gw[q].box.id = gw[r].box.id
        /\ gw[q].pc \in {"selectToken", "refresh", "updateToken", "upload", "updateCount"}

\* C5: every provider upload carries an access token of the owner of the
\* Collection the link code resolves to and targets that Collection's
\* folder, and a request touches the credential row of that owner only.
C5_OwnerCredentialOnly ==
    /\ \A u \in driveLog :
        /\ ResolvedBox(u.req) # NoBox
        /\ u.folder = ResolvedBox(u.req).drive_folder_id
        /\ u.token.kind = "access"
        /\ u.token.owner = ResolvedBox(u.req).owner_id
    /\ \A r \in Reqs : gw[r].credRows \subseteq {ResolvedBox(r).owner_id}

\* uploads for two owners, one of them with a refreshed token
C5_Witness ==
    \E u, v \in driveLog :
        /\ u.req # v.req
        /\ u.token.owner # v.token.owner
        /\ u.token.n > 0

\* every token value the store or the provider may hold
TokenValues ==
    {AT(o, k) : o \in Owners, k \in 0..MaxIssued} \cup
    {RT(o, k) : o \in Owners, k \in 0..MaxIssued}

C9_RefreshRetryOnUnauthorized ==
    \A r \in Reqs :
        (/\ gw[r].pc = "done"
         /\ gw[r].lastUpload = "unauthorized"
         /\ gw[r].tokenRow.refresh_token # NoToken
         /\ gw[r].accessToken = gw[r].tokenRow.access_token) =>
            /\ gw[r].refreshCalls = 1
            /\ gw[r].response.status = 200

(***************************************************************************)
(* Properties of authorizedFetch.                                          *)
(***************************************************************************)
ClFinished == cl.pc = "idle" /\ cl.outcome # "none"

\* C7, as claimed: a finished call of a client with a refresher whose first
\* response was 401 has invoked the refresher once, holds the refreshed
\* token and has sent the request a second time with it.
C7_AlwaysRefreshAndRetry ==
    (ClFinished /\ cl.tokenRefresher /\ cl.firstStatus = 401) =>
        /\ cl.refresherCalls = 1
        /\ cl.accessToken = cl.refreshed
        /\ Len(cl.sent) = 2
        /\ cl.sent[2] = cl.refreshed

\* C7, amended: the refresher is invoked exactly once; when it yields a
\* non-empty token other than the one just rejected, that token replaces
\* the client's token and the request is sent exactly once more with it;
\* otherwise the token is kept and the 401 response is returned unretried.
C7_RefreshAndRetryWhenUsable ==
    (ClFinished /\ cl.tokenRefresher /\ cl.firstStatus = 401) =>
        /\ cl.refresherCalls = 1
        /\ IF cl.refreshed # NoToken /\ cl.refreshed # cl.sent[1]
           THEN /\ cl.accessToken = cl.refreshed
                /\ Len(cl.sent) = 2
                /\ cl.sent[2] = cl.refreshed
           ELSE /\ cl.accessToken = cl.sent[1]
                /\ Len(cl.sent) = 1
                /\ cl.status = 401

\* a finished call that was retried with a different, refreshed token
C7_Witness ==
    /\ ClFinished
    /\ cl.tokenRefresher
    /\ cl.firstStatus = 401
    /\ Len(cl.sent) = 2
    /\ cl.sent[2] # cl.sent[1]
    /\ cl.sent[2] = cl.refreshed

\* C8: a call sends at most two requests and invokes the refresher at most
\* once; a call in flight can always take its next step; a call whose retry
\* was unauthorized too, or whose refresh failed, ends with an error thrown
\* to the caller.
C8_NoLoop ==
    /\ Len(cl.sent) <= 2
    /\ cl.refresherCalls <= 1
    /\ cl.pc # "idle" => ENABLED (ClFetch \/ ClRefresh)
    /\ cl.pc = "fetch" => Len(cl.sent) <= 1
    /\ cl.pc = "refreshing" => cl.refresherCalls = 0
    /\ (ClFinished /\ Len(cl.sent) = 2 /\ cl.status = 401) => cl.outcome = "thrown"
    /\ (ClFinished /\ cl.refresherCalls = 1 /\ cl.refreshed = NoToken) =>
            (cl.outcome = "thrown" /\ Len(cl.sent) = 1)

\* a finished call whose retried request was unauthorized again
C8_Witness ==
    /\ ClFinished
    /\ Len(cl.sent) = 2
    /\ cl.refresherCalls = 1
    /\ cl.status = 401
    /\ cl.outcome = "thrown"

(***************************************************************************)
(* Properties of the stored credential.                                    *)
(***************************************************************************)
\* the refresh token stored for an owner in a state of the table
StoredRefreshToken(table, o) ==
    LET rows == {t \in table : t.user_id = o /\ t.provider = "google"}
    IN IF rows = {} THEN NoToken ELSE (CHOOSE t \in rows : TRUE).refresh_token

\* the refresh tokens the provider returned in the operation that takes the
\* step: the exchange of a gateway request or of an endpoint call that is
\* writing its refresh back, or the login whose session is being persisted
ReturnedInStep(o) ==
    {gw[r].refreshed.refreshToken :
        r \in {q \in Reqs : gw[q].pc = "updateToken" /\ gw'[q].pc # "updateToken"}}
    \cup {ep[e].refreshed.refreshToken :
        e \in {c \in EpCalls : ep[c].pc = "updateToken" /\ ep'[c].pc # "updateToken"}}
    \cup (IF gw' = gw /\ ep' = ep THEN {session[o].provider_refresh_token} ELSE {})

C10_Step ==
    \A o \in Owners :
        StoredRefreshToken(user_oauth_tokens', o) # StoredRefreshToken(user_oauth_tokens, o) =>
            /\ StoredRefreshToken(user_oauth_tokens', o) # NoToken
            /\ StoredRefreshToken(user_oauth_tokens', o) \in ReturnedInStep(o)

\* C10: a step changes the stored refresh token of an owner only to a
\* non-empty refresh token the provider returned in the operation taking the
\* step; a refresh whose response carries none leaves the stored one as it is.
C10_RefreshTokenOnlyFromProvider == [][C10_Step]_vars

(***************************************************************************)
(* Properties of the token refresh (gateway and endpoint).                 *)
(***************************************************************************)
\* the operations that may refresh, with their locals
Refreshers == Reqs \cup EpCalls
Op(x) == IF x \in Reqs THEN gw[x] ELSE ep[x]
OpNext(x) == IF x \in Reqs THEN gw'[x] ELSE ep'[x]
OpOwner(x) == IF x \in Reqs THEN gw[x].box.owner_id ELSE ep[x].user

\* the operation's exchange with the provider succeeded
Exchanged(k) == k.refreshed # NoRefreshed

\* an operation has written the credential row once when its exchange
\* succeeded and it has moved on, and not at all otherwise
C11_WritesMatchExchange ==
    \A x \in Refreshers :
        /\ Op(x).refreshCalls <= 1
        /\ Op(x).tokenWrites =
                IF Exchanged(Op(x)) /\ Op(x).pc # "updateToken" THEN 1 ELSE 0
        /\ Op(x).pc = "updateToken" => Exchanged(Op(x))
        /\ (Op(x).refreshCalls = 1 /\ ~Exchanged(Op(x))) =>
                (Op(x).pc = "done" /\ Op(x).response.status = 502)

\* the step in which an exchange fails changes no credential row, and the
\* table changes only in the row of the owner of an operation that is
\* writing its successful exchange back
C11_Step ==
    /\ \A x \in Refreshers :
            (Op(x).pc = "refresh" /\ OpNext(x).pc = "done") =>
                /\ user_oauth_tokens' = user_oauth_tokens
                /\ OpNext(x).tokenWrites = 0
    /\ \A t \in user_oauth_tokens :
            t \notin user_oauth_tokens' =>
                \E x \in Refreshers :
                    /\ Op(x).pc = "updateToken"
                    /\ OpNext(x).tokenWrites = 1
                    /\ OpOwner(x) = t.user_id
    /\ Cardinality(user_oauth_tokens') = Cardinality(user_oauth_tokens)

RowRead(x) == single(TokenRowsOf(OpOwner(x)), NoRow)

\* a refresh is needed: the access token is missing or the stored expiry is
\* within the freshness margin
NeedsRefresh(row, t) == row.access_token = NoToken \/ isExpired(row.expires_at, t)

C12_Step ==
    \A x \in Refreshers :
        (/\ Op(x).pc = "selectToken"
         /\ OpNext(x).pc # "selectToken"
         /\ RowRead(x) # NoRow
         /\ RowRead(x).refresh_token = NoToken
         /\ NeedsRefresh(RowRead(x), now)) =>
            /\ OpNext(x).pc = "done"
            /\ OpNext(x).response.status # 200

\* C12: an operation that reads a credential row without a refresh token
\* while a refresh is needed fails: the endpoint does not answer 200 with the
\* stored access token and the gateway does not go on to upload with it.
C12_NoRefreshTokenFails == [][C12_Step]_vars

(***************************************************************************)
(* More properties of the public-upload gateway.                           *)
(***************************************************************************)
\* a request answered 403, or 502 for a rejected refresh exchange, has
\* uploaded nothing, written no counter and made at most the one exchange
C13_DisconnectedDoesNothing ==
    \A r \in Reqs :
        (\/ gw[r].response.status = 403
         \/ gw[r].response.body = <<Text("Owner token refresh failed")>>) =>
            /\ gw[r].pc = "done"
            /\ gw[r].response.status \in {403, 502}
            /\ gw[r].attempted = 0
            /\ UploadedBy(r) = {}
            /\ gw[r].countWrites = 0
            /\ gw[r].tokenWrites = 0
            /\ gw[r].refreshCalls <= 1

\* the step that finds no credential row answers 403, the step in which the
\* exchange is rejected answers 502, and an answered request does nothing more
C13_Step ==
    \A r \in Reqs :
        /\ (gw[r].pc = "selectToken" /\ gw'[r].pc # "selectToken"
                /\ TokenRowsOf(gw[r].box.owner_id) = {}) =>
                (gw'[r].pc = "done" /\ gw'[r].response.status = 403)
        /\ (gw[r].pc = "refresh" /\ gw'[r].pc \notin {"refresh", "updateToken"}) =>
                /\ gw'[r].pc = "done"
                /\ gw'[r].response.status = 502
                /\ driveLog' = driveLog
                /\ pull_boxes' = pull_boxes
        /\ gw[r].pc = "done" => gw'[r] = gw[r]

\* C13: when the owner of the resolved Collection has no credential row, or
\* the refresh exchange is rejected, the request ends with 403 or 502 for the
\* whole batch: no file is uploaded, the counter is not written and no
\* further refresh or upload is attempted.
C13_OwnerDisconnected == []C13_DisconnectedDoesNothing /\ [][C13_Step]_vars

\* one request answered 403 for an owner without a credential row, another
\* answered 502 after its refresh exchange was rejected
C13_Witness ==
    \E r, q \in Reqs :
        /\ gw[r].response.status = 403
        /\ TokenRowsOf(gw[r].box.owner_id) = {}
        /\ gw[q].response.status = 502
        /\ gw[q].refreshCalls = 1
        /\ gw[q].attempted = 0

(***************************************************************************)
(* Properties of handleCreateBox.                                          *)
(***************************************************************************)
\* the calls that have created a Collection
Created == {c \in Creates : cr[c].createdBox # NoPullBox}

\* C14: no two Collections in the store hold the same link code, and no two
\* successful creations, by any path of handleCreateBox, return the same
\* link code.
C14_LinkCodesUnique ==
    /\ \A a, b \in pull_boxes : a.link_code = b.link_code => a = b
    /\ \A c, d \in Created :
            cr[c].createdBox.linkCode = cr[d].createdBox.linkCode => c = d

\* the store's answers to the inserts of a call were all uniqueness violations
AllCollided(k) ==
    /\ Len(k.answers) = InsertAttempts
    /\ \A j \in 1..Len(k.answers) : k.answers[j] = "23505"

\* C15: a creation makes at most 3 inserts, each but the first after a
\* uniqueness violation, and none after a success; when all 3 collide it ends
\* with the allocation error, reported to the caller as that error, and with
\* no Collection created; a creation under way can always take its next step.
C15_BoundedAllocation ==
    \A c \in Creates :
        /\ Len(cr[c].answers) <= InsertAttempts
        /\ \A j \in 1..(Len(cr[c].answers) - 1) : cr[c].answers[j] = "23505"
        /\ (\E j \in 1..Len(cr[c].answers) : cr[c].answers[j] = "ok") =>
                (cr[c].pc = "done" /\ cr[c].createdBox # NoPullBox)
        /\ cr[c].pc \in {"createFolder", "insert"} => ENABLED CrStep(c)
        /\ AllCollided(cr[c]) =>
                /\ cr[c].pc = "done"
                /\ cr[c].createdBox = NoPullBox
                /\ \A b \in pull_boxes : b.id # NewBoxId(c)
                /\ cr[c].thrown = ErrorCreatePullBox
                /\ cr[c].alert = ErrorCreatePullBox

(***************************************************************************)
(* Properties of the credential store.                                     *)
(***************************************************************************)
\* the keys (owner id, provider) of the rows of a state of the table
KeysOf(table) == {<<t.user_id, t.provider>> : t \in table}

C16_OneRowPerKey ==
    \A a, b \in user_oauth_tokens :
        (a.user_id = b.user_id /\ a.provider = b.provider) => a = b

\* a step keeps every key of the table, and the write-back of a refresh adds
\* none
C16_Step ==
    /\ KeysOf(user_oauth_tokens) \subseteq KeysOf(user_oauth_tokens')
    /\ (\E x \in Refreshers : Op(x).pc = "updateToken" /\ OpNext(x).pc # "updateToken") =>
            KeysOf(user_oauth_tokens') = KeysOf(user_oauth_tokens)
    /\ Cardinality(user_oauth_tokens') = Cardinality(KeysOf(user_oauth_tokens'))

\* C16: the credential store holds at most one row per (owner id, provider):
\* persisting an owner's token again updates the row that exists, and a
\* refresh never creates a row.
C16_SingleCredentialRow == []C16_OneRowPerKey /\ [][C16_Step]_vars

\* owner o3, who had no row, holds one row with the refresh token of a first
\* sign-in and the access token of a second: inserted, then updated in place
C16_Witness ==
    \E t \in user_oauth_tokens :
        /\ t.user_id = "o3"
        /\ t.refresh_token = RT("o3", 1)
        /\ t.access_token = AT("o3", 2)
        /\ Cardinality(user_oauth_tokens) = 3

\* the request got past the method, the upload gate and the form checks
Admitted(g) == g.pc = "done" /\ g.response.status \notin {400, 401, 405}

\* the link code has the format of a link code, ^[A-Za-z0-9]{4,12}$
ValidCode(code) == directMatch(code)

AllImages(files) == \A i \in 1..Len(files) : startsWithImage(files[i])

\* the owner of a request's Collection has no credential to upload with
NotConnected(g) ==
    \A t \in TokenRowsOf(g.box.owner_id) :
        t.access_token = NoToken /\ t.refresh_token = NoToken

\* C17: a request ends with one response, and its status is the one of its
\* outcome: 200 with one result per file when every stage succeeded, 400 for
\* a missing or invalid code or a file that is no image, 404 for an unknown
\* code (nothing read, called or written after the lookup), 410 for an
\* expired Collection, 403 for an owner who is not connected, 502 for a
\* failure of the provider.
C17_StatusOfOutcome ==
    \A r \in Reqs :
        /\ (gw[r].pc = "done") <=> (gw[r].response # NoResponse)
        /\ gw[r].pc \notin {"idle", "done"} => ENABLED GwStep(r)
        /\ gw[r].pc = "done" =>
                gw[r].response.status \in {200, 400, 401, 403, 404, 405, 410, 502}
        /\ gw[r].response.status = 400 =>
                \/ gw[r].linkCode = NullCode
                \/ ~ValidCode(gw[r].linkCode)
                \/ gw[r].files = << >>
                \/ ~AllImages(gw[r].files)
        /\ Admitted(gw[r]) =>
                /\ ValidCode(gw[r].linkCode)
                /\ gw[r].files # << >>
                /\ AllImages(gw[r].files)
        /\ gw[r].response.status = 404 =>
                /\ ResolvedBox(r) = NoBox
                /\ gw[r].credRows = {}
                /\ gw[r].refreshCalls = 0
                /\ gw[r].tokenWrites = 0
                /\ gw[r].attempted = 0
                /\ gw[r].countWrites = 0
        /\ gw[r].response.status = 410 =>
                (gw[r].box # NoBox /\ NotAfter(gw[r].box.expires_at, now))
        /\ gw[r].response.status = 403 => (gw[r].box # NoBox /\ NotConnected(gw[r]))
        /\ gw[r].response.status = 502 =>
                \/ gw[r].lastUpload \in {"unauthorized", "error"}
                \/ (gw[r].refreshCalls = 1 /\ ~Exchanged(gw[r]))
        /\ gw[r].response.status = 200 =>
                /\ Len(gw[r].response.body) = Len(gw[r].files)
                /\ ReportedBy(r) = 1..Len(gw[r].files)
                /\ {u.file : u \in UploadedBy(r)} = 1..Len(gw[r].files)

C18_NonNegative == \A b \in pull_boxes : b.photo_count \in Nat

C18_Step ==
    \A b \in pull_boxes :
        \E a \in pull_boxes' : a.id = b.id /\ a.photo_count >= b.photo_count

\* C18: the counter of every Collection is a non-negative integer and no
\* step of any gateway request lowers its stored value.
C18_CounterNeverDecreases == []C18_NonNegative /\ [][C18_Step]_vars

\* a row as it is but for its counter
Frame(b) == [b EXCEPT !.photo_count = 0]

\* the requests that write their counter in the step
CountWriters == {r \in Reqs : gw[r].pc = "updateCount" /\ gw'[r].pc # "updateCount"}

C19_Step ==
    /\ {Frame(b) : b \in pull_boxes'} = {Frame(b) : b \in pull_boxes}
    /\ Cardinality(pull_boxes') = Cardinality(pull_boxes)
    /\ \A b \in pull_boxes :
            b \notin pull_boxes' =>
                \E r \in CountWriters : ResolvedBox(r) # NoBox /\ ResolvedBox(r).id = b.id

\* C19: a step of a gateway request changes nothing in the Collection store
\* but the counter of the Collection the request's code resolved to: no row
\* is added or removed, and expiry, owner, folder and link code of every row
\* stay as they are.
C19_OnlyTheCounter == [][C19_Step]_vars

\* both requests have written the counter of their Collections, which are
\* two different ones
C19_Witness ==
    \E r, q \in Reqs :
        /\ gw[r].countWrites = 1
        /\ gw[q].countWrites = 1
        /\ gw[r].box.id # gw[q].box.id
        /\ CounterOf(gw[r].box.id) > 0
        /\ CounterOf(gw[q].box.id) > 0

\* the position of a handler in the sequence of its stages
StageOf(pc) ==
    CASE pc \in {"idle", "formData"} -> 0
      [] pc = "selectBox" -> 1                                   \* ResolveCode, CheckExpiry
      [] pc \in {"selectToken", "refresh", "updateToken"} -> 2    \* ResolveOwnerToken
      [] pc = "upload" -> 3                                      \* Upload
      [] pc = "updateCount" -> 4                                 \* UpdateCounter
      [] pc = "done" -> 5                                        \* Respond

\* what a request has done matches the stage it is in
C20_EffectsFollowStages ==
    \A r \in Reqs :
        /\ StageOf(gw[r].pc) >= 2 /\ gw[r].response.status \notin {400, 401, 404, 405}
                => gw[r].box # NoBox
        /\ (gw[r].attempted > 0 \/ UploadedBy(r) # {} \/ gw[r].pc \in {"upload", "updateCount"}) =>
                /\ gw[r].box # NoBox
                /\ gw[r].box.link_code = gw[r].linkCode
                /\ gw[r].tokenRow # NoRow
                /\ gw[r].accessToken # NoToken
        /\ gw[r].pc = "updateCount" =>
                (gw[r].attempted = Len(gw[r].files) /\ gw[r].countWrites = 0)
        /\ gw[r].countWrites > 0 =>
                /\ gw[r].countWrites = 1
                /\ gw[r].attempted = Len(gw[r].files)
                /\ gw[r].pc = "done"
                /\ gw[r].response.status = 200
        /\ gw[r].response.status \in {400, 401, 404, 405, 410} =>
                (gw[r].credRows = {} /\ gw[r].refreshCalls = 0)
        /\ gw[r].response.status \in {400, 401, 403, 404, 405, 410} =>
                (gw[r].attempted = 0 /\ UploadedBy(r) = {})
        /\ (gw[r].pc = "done" /\ gw[r].response.status # 200) => gw[r].countWrites = 0

\* a step moves a request forward through the stages; the provider stores a
\* file only in a step of the upload stage, the counter is written only in
\* the step after the last upload, which answers, and the expiry check lets
\* pass only a Collection that has not expired
C20_Step ==
    /\ \A r \in Reqs :
        /\ StageOf(gw'[r].pc) >= StageOf(gw[r].pc)
        /\ gw[r].pc = "done" => gw'[r] = gw[r]
        /\ UploadedBy(r)' # UploadedBy(r) => gw[r].pc = "upload"
        /\ gw'[r].attempted # gw[r].attempted => gw[r].pc = "upload"
        /\ gw'[r].countWrites # gw[r].countWrites =>
                /\ gw[r].pc = "updateCount"
                /\ gw'[r].pc = "done"
        /\ (gw[r].pc = "selectBox" /\ StageOf(gw'[r].pc) \in 2..4) =>
                (ResolvedBox(r) # NoBox /\ ~LinkExpired(ResolvedBox(r), now))
    /\ pull_boxes' # pull_boxes =>
            \E r \in Reqs : gw[r].pc = "updateCount" /\ gw'[r].countWrites = 1

\* C20: the stages of a request occur in the order ResolveCode, CheckExpiry,
\* ResolveOwnerToken, Upload, UpdateCounter, Respond: no upload before the
\* code is resolved, the expiry check passed and a token obtained, the
\* counter update after the last upload and before the response, and no
\* stage after one that failed.
C20_StageOrder == []C20_EffectsFollowStages /\ [][C20_Step]_vars

\* a request that went through every stage, refresh included, next to one
\* that failed at the expiry check
C20_Witness ==
    \E r, q \in Reqs :
        /\ gw[r].response.status = 200
        /\ gw[r].tokenWrites = 1
        /\ gw[r].countWrites = 1
        /\ gw[r].attempted = MaxFiles
        /\ gw[q].response.status = 410

(***************************************************************************)
(* More properties of the token refresh.                                   *)
(***************************************************************************)
\* the stored expiry is at or before t + 30 seconds
WithinMargin(expiresAt, t) ==
    expiresAt # NullTime /\ NotAfter(expiresAt, AddMs(t, FRESHNESS_MARGIN_MS))

\* the step that reads the credential row goes to the exchange exactly when
\* a refresh token is stored and the token is empty or within the margin,
\* and otherwise keeps the stored token
C21_Step ==
    \A x \in Refreshers :
        (Op(x).pc = "selectToken" /\ OpNext(x).pc # "selectToken" /\ RowRead(x) # NoRow) =>
            /\ (/\ RowRead(x).refresh_token # NoToken
                /\ (RowRead(x).access_token = NoToken
                        \/ WithinMargin(RowRead(x).expires_at, now))) =>
                    /\ OpNext(x).pc = "refresh"
                    /\ OpNext(x).refreshCalls = 0
            /\ (/\ RowRead(x).access_token # NoToken
                /\ ~WithinMargin(RowRead(x).expires_at, now)) =>
                    /\ OpNext(x).pc = IF x \in Reqs THEN "upload" ELSE "done"
                    /\ OpNext(x).refreshCalls = 0
                    /\ OpNext(x).accessToken = RowRead(x).access_token

\* an operation that is to refresh has sent no upload and returned no token;
\* the token used after an exchange is the one the exchange returned, and
\* without an exchange it is the stored one
C21_TokenUsed ==
    /\ \A x \in Refreshers :
        /\ Op(x).pc \in {"refresh", "updateToken"} =>
                (Op(x).response = NoResponse /\ Op(x).refreshCalls <= 1)
        /\ Exchanged(Op(x)) => Op(x).accessToken = Op(x).refreshed.accessToken
        /\ (~Exchanged(Op(x)) /\ Op(x).tokenRow # NoRow) =>
                Op(x).accessToken = Op(x).tokenRow.access_token
    /\ \A r \in Reqs :
        /\ gw[r].pc \in {"refresh", "updateToken"} => gw[r].attempted = 0
        /\ \A u \in UploadedBy(r) : u.token = gw[r].accessToken
    /\ \A e \in EpCalls :
            (ep[e].response.status = 200 /\ ep[e].tokenRow # NoRow) =>
                ep[e].response.body[1] = ep[e].accessToken

\* C21: in the gateway and in the endpoint, a stored refresh token with a
\* stored expiry at or before now + 30 s (or an empty access token) leads to
\* a refresh exchange before any upload is sent or token returned, and the
\* refreshed token is the one used; a non-empty access token with a null
\* expiry or one later than now + 30 s is used as it is, without an exchange.
C21_FreshnessCheck == []C21_TokenUsed /\ [][C21_Step]_vars

\* the endpoint refreshed and stored a token without expiry; the gateway
\* then read it, made no exchange and uploaded with it
C21_Witness ==
    \E r \in Reqs, e \in EpCalls :
        /\ ep[e].tokenWrites = 1
        /\ ep[e].response.status = 200
        /\ gw[r].tokenRow.expires_at = NullTime
        /\ gw[r].tokenRow.access_token = ep[e].refreshed.accessToken
        /\ gw[r].refreshCalls = 0
        /\ UploadedBy(r) # {}

\* two operations for the same owner have both exchanged and written back
BothRefreshed(x, y) ==
    /\ x # y
    /\ Exchanged(Op(x)) /\ Op(x).tokenWrites = 1
    /\ Exchanged(Op(y)) /\ Op(y).tokenWrites = 1
    /\ Op(x).tokenRow.user_id = Op(y).tokenRow.user_id

\* C22: when two operations for the same owner have both refreshed and
\* written back, each holds the token of its own exchange, and the stored
\* row has the access token and the expiry of one and the same of the two
\* responses and a non-empty refresh token.
C22_ConcurrentRefreshes ==
    \A x, y \in Refreshers :
        BothRefreshed(x, y) =>
            /\ Op(x).accessToken = Op(x).refreshed.accessToken
            /\ Op(y).accessToken = Op(y).refreshed.accessToken
            /\ Op(x).accessToken # Op(y).accessToken
            /\ \A t \in TokenRowsOf(Op(x).tokenRow.user_id) :
                /\ \E z \in {x, y} :
                    /\ t.access_token = Op(z).refreshed.accessToken
                    /\ t.expires_at = Op(z).refreshed.expiresAt
                /\ t.refresh_token # NoToken
            /\ Cardinality(TokenRowsOf(Op(x).tokenRow.user_id)) = 1

\* the gateway and the endpoint both read the expired token before either
\* wrote, and the one that exchanged first wrote last: the row holds the
\* token of the earlier exchange, with an expiry different from the other's
C22_Witness ==
    \E r \in Reqs, e \in EpCalls :
        /\ BothRefreshed(r, e)
        /\ gw[r].tokenRow = ep[e].tokenRow
        /\ gw[r].refreshed.expiresAt # ep[e].refreshed.expiresAt
        /\ \E t \in TokenRowsOf(gw[r].tokenRow.user_id) :
                t.access_token.n = 1 /\ t.access_token = gw[r].refreshed.accessToken

(***************************************************************************)
(* More properties of the gateway.                                         *)
(***************************************************************************)
\* some file of the form has a content type outside image/
HasNonImage(files) == \E i \in 1..Len(files) : files[i][1] # "image"

C23_Rejected ==
    \A r \in Reqs :
        HasNonImage(gw[r].files) =>
            /\ gw[r].pc = "done"
            /\ gw[r].response.status = 400
            /\ gw[r].box = NoBox
            /\ gw[r].attempted = 0
            /\ UploadedBy(r) = {}
            /\ gw[r].countWrites = 0

C23_Step ==
    \A r \in Reqs :
        (gw'[r] # gw[r] /\ HasNonImage(gw'[r].files)) =>
            (pull_boxes' = pull_boxes /\ driveLog' = driveLog)

\* C23: a request whose form holds a file that is not an image is answered
\* 400 by the step that reads the form, before any Collection is looked up;
\* none of its files reaches the provider and the step changes no counter.
C23_NonImageRejected == []C23_Rejected /\ [][C23_Step]_vars

\* a form with a valid code of an open Collection, an image and a text
\* file was answered 400, while the other request stored a file
C23_Witness ==
    \E r, q \in Reqs :
        /\ gw[r].linkCode = CodeCD34
        /\ Len(gw[r].files) = 2
        /\ startsWithImage(gw[r].files[1])
        /\ ~startsWithImage(gw[r].files[2])
        /\ gw[r].response.status = 400
        /\ gw[q].linkCode = CodeCD34
        /\ gw[q].countWrites = 1

(***************************************************************************)
(* More properties of the creation of Collections.                         *)
(***************************************************************************)
\* the Collections that exist: the rows of the store, and the Collections
\* of the demo user, which live in the list of the app only
Collections ==
    {mapPullBox(b) : b \in pull_boxes}
        \cup {boxes["demo"][i] : i \in 1..Len(boxes["demo"])}

\* call c ends in the step, with or without a Collection
CrEnds(c) == cr[c].pc # "done" /\ cr'[c].pc = "done"

C24_Step ==
    \A c \in Creates :
        /\ (cr[c].pc = "createFolder" /\ cr'[c].pc = "insert") =>
                cr'[c].expiresAt = Instant(now[1] + DEFAULT_EXPIRY_DAYS, now[2])
        /\ (CrEnds(c) /\ cr'[c].createdBox # NoPullBox) =>
                /\ Collections' = Collections \cup {cr'[c].createdBox}
                /\ cr'[c].createdBox \notin Collections
                /\ cr'[c].createdBox.photoCount = 0
                /\ cr'[c].createdBox.expiresAt =
                        IF isDemoUser(cr[c].user)
                        THEN Instant(now[1] + DEFAULT_EXPIRY_DAYS, now[2])
                        ELSE cr[c].expiresAt
        /\ (CrEnds(c) /\ cr'[c].createdBox = NoPullBox) => Collections' = Collections
        /\ (cr'[c] # cr[c] /\ ~CrEnds(c)) => Collections' = Collections

\* C24: a creation that succeeds adds exactly one Collection, expiring 90
\* days after the time the handler read and with counter 0; a creation that
\* fails adds none; no step of a creation changes or removes a Collection
\* that exists.
C24_PureAppend == [][C24_Step]_vars

(***************************************************************************)
(* Properties of the dashboard's list.                                     *)
(***************************************************************************)
Entries(list) == {list[i] : i \in 1..Len(list)}

NoDuplicateIds(list) ==
    \A i, j \in 1..Len(list) : i # j => list[i].id # list[j].id

\* the user's Collections in the store, as the dashboard shows them
StoredOf(u) == {mapPullBox(b) : b \in {x \in pull_boxes : x.owner_id = u}}

\* no create or delete handler is between its call and its end
HandlersIdle ==
    /\ \A c \in Creates : cr[c].pc \in {"idle", "done"}
    /\ \A d \in Deletes : dl[d].pc \in {"idle", "done"}

C25_Synced ==
    \A u \in DOMAIN feed :
        /\ NoDuplicateIds(boxes[u])
        /\ (feed[u] = << >> /\ HandlersIdle) => Entries(boxes[u]) = StoredOf(u)

C25_Step ==
    \A u \in DOMAIN feed :
        (feed[u] # << >> /\ feed'[u] = Tail(feed[u])) =>
            LET payload == Head(feed[u])
                others == {b \in Entries(boxes[u]) : b.id # payload.id}
            IN IF payload.eventType = "DELETE"
               THEN boxes'[u] = WithoutId(boxes[u], payload.id)
               ELSE /\ Entries(boxes'[u]) = others \cup {mapPullBox(payload.new)}
                    /\ Len(boxes'[u]) = Cardinality(others) + 1

\* C25: the list of a dashboard never holds two entries with one id; a
\* delete event removes the entry with its id and nothing else, an insert
\* or update event replaces the entry with its id or adds it; and when no
\* event is in flight and no create or delete of the owner is under way,
\* the list holds exactly the owner's rows of the store, counters included.
C25_DashboardConverges == []C25_Synced /\ [][C25_Step]_vars

(***************************************************************************)
(* Properties of the upload page.                                          *)
(***************************************************************************)
UpStarted == up.pc \notin {"idle", "selected"}

\* the status of the attempt of the i-th selected file
AttemptOf(i) == up.uploads[up.files[i]]

C26_Attempts ==
    UpStarted =>
        /\ Cardinality(DOMAIN up.uploads) = Len(up.files)
        /\ \A i \in 1..Len(up.files) :
            /\ i < up.at => AttemptOf(i) \in {"completed", "error"}
            /\ i > up.at => AttemptOf(i) = "pending"
            /\ (i < up.at /\ AttemptOf(i) = "completed") => up.requests[i] = "ok"
        /\ up.pc = "done" => up.at = Len(up.files) + 1

C26_Step ==
    (UpStarted /\ UpStarted') =>
        \A n \in DOMAIN up.uploads :
            \/ up'.uploads[n] = up.uploads[n]
            \/ <<up.uploads[n], up'.uploads[n]>> \in
                    {<<"pending", "uploading">>, <<"uploading", "completed">>,
                     <<"uploading", "error">>}

\* C26: startUpload keeps one attempt per selected file and handles the
\* files in the order of the selection; an attempt only goes from pending to
\* uploading and from uploading to completed or error; a failure does not
\* stop the loop, which ends with every attempt completed or error; and an
\* attempt is completed only when its upload request got a success response.
C26_UploadAttempts == []C26_Attempts /\ [][C26_Step]_vars

(***************************************************************************)
(* More properties of the gateway's requests.                              *)
(***************************************************************************)
\* request r has read its form
FormRead(r) == gw[r].pc \notin {"idle", "formData"} /\ gw[r].files # << >>

\* C27: whatever the code fields of the form hold, extractLinkCode gives
\* null, and the request is answered 400 without a lookup, or a code of 4
\* to 12 letters and digits; no other code is looked up.
C27_LookupCodesValid ==
    \A r \in Reqs :
        /\ (gw[r].pc # "idle" /\ gw[r].linkCode # NullCode) => ValidCode(gw[r].linkCode)
        /\ (FormRead(r) /\ gw[r].linkCode = NullCode) =>
                (gw[r].response.status = 400 /\ gw[r].box = NoBox)

\* the provider uploads stored for Collection b
UploadedTo(b) == {u \in driveLog : u.folder = b.drive_folder_id}

\* C28: whatever the interleaving of the requests, the stored counter of a
\* Collection is at most the number of uploads the provider stored for it.
C28_NeverOverCounts ==
    \A b \in pull_boxes :
        b.photo_count <= InitialCounterOf(b.id) + Cardinality(UploadedTo(b))

\* two requests stored one file each for one Collection and both wrote the
\* counter, which stands at 1
C28_Witness ==
    \E r, q \in Reqs :
        /\ r # q
        /\ gw[r].countWrites = 1 /\ gw[q].countWrites = 1
        /\ gw[r].box.id = gw[q].box.id
        /\ \E b \in pull_boxes :
            /\ b.id = gw[r].box.id
            /\ b.photo_count = 1
            /\ Cardinality(UploadedTo(b)) = 2

\* the requests that send an upload to the provider in the step
Uploaders == {r \in Reqs : gw'[r].attempted # gw[r].attempted}

C29_Step ==
    \A r \in Uploaders :
        gw[r].box.expires_at = NullTime \/ Before(now, gw[r].box.expires_at)

\* C29: whenever a request sends a file to the provider, the first or a
\* later one, after a refresh or not, the time is before the expiry of its
\* Collection.
C29_NoUploadAfterExpiry == [][C29_Step]_vars

(***************************************************************************)
(* More properties of the stored credentials.                              *)
(***************************************************************************)
\* the number of issue of the access token stored for owner o (0 if none)
StoredIssue(rows, o) ==
    LET mine == {t \in rows : t.user_id = o /\ t.provider = "google"}
    IN IF mine = {} THEN 0 ELSE (CHOOSE t \in mine : TRUE).access_token.n

C30_Step ==
    \A o \in Owners :
        StoredIssue(user_oauth_tokens', o) >= StoredIssue(user_oauth_tokens, o)

\* C30: no write of a login or of a refresh replaces the stored access token
\* of an owner by one the provider issued earlier.
C30_AccessTokenNeverRegresses == [][C30_Step]_vars

====
